---- MODULE Spec2Model ----
(***************************************************************************)
(* Model of the ILP extraction server (server.js): the Express routes,     *)
(* the upload wrapper, buildPartsFromUpload and the /extract handler, with *)
(* every await as a separate step so that two requests can interleave.     *)
(***************************************************************************)
EXTENDS Integers, Sequences, FiniteSets, TLC

\* Largest value the clock behind Date.now() takes in the model.
MaxNow == 2

-----------------------------------------------------------------------------
\* Configuration and constants of server.js

MAX_INLINE_BYTES == 14 * 1024 * 1024

IMAGE_MIMES == {"image/png", "image/jpeg", "image/webp", "image/heic", "image/heif"}

TEXTY_MIMES == {"text/plain", "text/csv", "application/json"}

DIRECT_DOC_MIMES == {"application/pdf"}

DOCX_MIME == "application/vnd.openxmlformats-officedocument.wordprocessingml.document"

\* The array built at the end of buildPartsFromUpload, in source order.
supported ==
    << "application/pdf",
       "image/png", "image/jpeg", "image/webp", "image/heic", "image/heif",
       "text/plain", "text/csv", "application/json",
       "application/vnd.openxmlformats-officedocument.wordprocessingml.document (DOCX)" >>

\* The MIME types buildPartsFromUpload has a branch for.
RecognizedMimes == DIRECT_DOC_MIMES \cup IMAGE_MIMES \cup TEXTY_MIMES \cup {DOCX_MIME}

\* Declared types with no branch.
OtherMimes == {"application/zip", "application/vnd.ms-powerpoint"}

Whitespace == {" ", "\t"}

\* String.prototype.replace(/\s+/g, "_") on a string given as its characters:
\* every maximal run of whitespace becomes one underscore.
RECURSIVE ReplaceWs(_, _)
ReplaceWs(s, inRun) ==
    IF s = <<>> THEN <<>>
    ELSE IF Head(s) \in Whitespace
         THEN (IF inRun THEN <<>> ELSE <<"_">>) \o ReplaceWs(Tail(s), TRUE)
         ELSE <<Head(s)>> \o ReplaceWs(Tail(s), FALSE)

\* String.prototype.trim(): leading and trailing whitespace removed.
RECURSIVE TrimLeft(_)
TrimLeft(s) ==
    IF s # <<>> /\ Head(s) \in Whitespace THEN TrimLeft(Tail(s)) ELSE s

RECURSIVE TrimRight(_)
TrimRight(s) ==
    IF s # <<>> /\ s[Len(s)] \in Whitespace
    THEN TrimRight(SubSeq(s, 1, Len(s) - 1)) ELSE s

Trim(s) == TrimRight(TrimLeft(s))

\* `/tmp/${Date.now()}-${(file.originalname || dflt).replace(/\s+/g, "_")}`.
\* The timestamp is all digits, so two paths are the same string exactly when
\* timestamp and sanitized name agree.
TmpPath(ts, file, dflt) ==
    [ts |-> ts,
     name |-> ReplaceWs(IF file.originalname = <<>> THEN dflt ELSE file.originalname,
                        FALSE)]

\* file.size || file.buffer?.length || 0
SizeOf(file) ==
    IF file.size # 0 THEN file.size
    ELSE IF file.bufferLength # 0 THEN file.bufferLength ELSE 0

\* The size test written with < in place of <=.
InlineAllowedStrict(size) == size < MAX_INLINE_BYTES

\* size <= MAX_INLINE_BYTES, the test of both size branches.
InlineAllowed(size) == size <= MAX_INLINE_BYTES

\* The content parts. key is the property a part object carries.
InlinePart(file) ==
    [key |-> "inlineData", mimeType |-> file.mimetype,
     payload |-> <<"base64", file.buffer>>]

TextPart(chars) ==
    [key |-> "text", mimeType |-> "", payload |-> chars]

\* createPartFromUri(uploaded.uri, uploaded.mimeType)
createPartFromUri(uri, mimeType) ==
    [key |-> "fileData", mimeType |-> mimeType, payload |-> uri]

\* The spec's name of a part's variant.
PartKind(part) ==
    CASE part.key = "inlineData" -> "InlineData"
      [] part.key = "fileData"   -> "RemoteReference"
      [] part.key = "text"       -> "TextSegment"

\* The message of the Error thrown at the end of buildPartsFromUpload.  The
\* template literal escapes both placeholders (\${mt} and \${supported.join}),
\* so neither is interpolated: the message is the literal text, whatever mt is.
UnsupportedMessage(mt) ==
    << "Unsupported file type: ${mt}. Supported: ${supported.join(\", \")}. Convert PPTX/others to PDF or TXT first." >>

EmptyDocxMessage == << "DOCX parsed but produced empty text." >>

MissingKeyMessage == << "Missing GOOGLE_API_KEY (or GEMINI_API_KEY)" >>

MissingFileMessage ==
    << "Upload in multipart/form-data under field 'file' (or legacy 'pdf')." >>

NotJsonMessage == << "Model did not return valid JSON" >>

\* String(e) of an Error with the given message.
StringOfError(message) == <<"Error: ">> \o message

\* String(err) of the MulterError for a file under a field not declared.
MulterErrorString == << "MulterError: Unexpected field" >>

\* Texts the model backend may return, and JSON.parse on them.
ModelTexts == {"", "{}", "{\"headline_gross_return_pct\":8}", "sorry, I can't"}

JsonValid(text) == text \in {"{}", "{\"headline_gross_return_pct\":8}"}

JsonParse(text) ==
    CASE text = "{}" -> "Object()"
      [] text = "{\"headline_gross_return_pct\":8}" -> "Object(headline_gross_return_pct: 8)"
      [] OTHER -> "SyntaxError"

\* result?.text || "{}", the returned text given as <<>> (undefined) or <<t>>.
TextOrDefault(returned) ==
    IF returned = <<>> \/ returned[1] = "" THEN "{}" ELSE returned[1]

\* Values mammoth.extractRawText may resolve to (as characters); <<>> also
\* stands for an undefined value, which (value || "") turns into "".
DocxValues == { <<>>, <<" ", "\t">>, <<" ", "x", " ", "y", "\t">>, <<"x">> }

-----------------------------------------------------------------------------
\* Requests

Reqs == {"r1", "r2"}

Routes == {"POST /extract", "GET /ilpCheck", "POST /cache/rebuild", "GET /health"}

\* What the multipart body carries: a file under "file", under "pdf", under
\* both, under neither, or under a field that is not declared.
Uploads == {"file", "pdf", "both", "none", "unexpected"}

OriginalNames == { <<>>, <<"a", " ", "b">>, <<"a", "_", "b">>, <<"a", " ", "\t", "b">> }

Sizes == {0, MAX_INLINE_BYTES - 1, MAX_INLINE_BYTES, MAX_INLINE_BYTES + 1}

NoInput ==
    [route |-> "POST /extract", upload |-> "none", mimetype |-> "application/pdf",
     size |-> 0, originalname |-> <<>>]

ExtractInputs ==
    [route : {"POST /extract"}, upload : Uploads,
     mimetype : RecognizedMimes \cup OtherMimes, size : Sizes,
     originalname : OriginalNames]

OtherRouteInputs ==
    { [NoInput EXCEPT !.route = rt] : rt \in Routes \ {"POST /extract"} }

\* The requests two clients send at the same time in the model: one of each
\* kind of path through the handler, with the large uploads sharing names.
ConcurrentInputs ==
    { [route |-> "POST /extract", upload |-> "file", mimetype |-> "application/pdf",
       size |-> MAX_INLINE_BYTES + 1, originalname |-> <<"a", " ", "b">>],
      [route |-> "POST /extract", upload |-> "pdf", mimetype |-> "text/csv",
       size |-> MAX_INLINE_BYTES + 1, originalname |-> <<"a", "_", "b">>],
      [route |-> "POST /extract", upload |-> "file", mimetype |-> "image/png",
       size |-> MAX_INLINE_BYTES + 1, originalname |-> <<>>],
      [route |-> "POST /extract", upload |-> "both", mimetype |-> "text/plain",
       size |-> 0, originalname |-> <<"a", "_", "b">>],
      [route |-> "POST /extract", upload |-> "file", mimetype |-> DOCX_MIME,
       size |-> 0, originalname |-> <<"a", "_", "b">>],
      [route |-> "POST /extract", upload |-> "file", mimetype |-> "application/zip",
       size |-> 0, originalname |-> <<"a", "_", "b">>],
      [route |-> "POST /extract", upload |-> "none", mimetype |-> "application/pdf",
       size |-> 0, originalname |-> <<>>],
      [route |-> "POST /extract", upload |-> "unexpected", mimetype |-> "application/pdf",
       size |-> 0, originalname |-> <<>>] }
    \cup OtherRouteInputs

\* The file object Multer's memory storage builds for an uploaded file.
FileOf(in) ==
    [mimetype |-> in.mimetype, size |-> in.size, bufferLength |-> in.size,
     originalname |-> in.originalname, buffer |-> "bytes"]

\* The file sent under the legacy field when both fields carry one.
LegacyFile ==
    [mimetype |-> "application/pdf", size |-> 1, bufferLength |-> 1,
     originalname |-> <<"legacy">>, buffer |-> "legacy-bytes"]

\* req.files after Multer's fields() middleware; <<>> is an absent property.
FilesOf(in) ==
    [file |-> IF in.upload \in {"file", "both"} THEN <<FileOf(in)>> ELSE <<>>,
     pdf  |-> IF in.upload = "pdf" THEN <<FileOf(in)>>
              ELSE IF in.upload = "both" THEN <<LegacyFile>> ELSE <<>>]

NoFiles == [file |-> <<>>, pdf |-> <<>>]

\* getUploadedFile(req): <<>> is null.  req.file is never set by fields().
getUploadedFile(files) ==
    IF files.file # <<>> THEN <<files.file[1]>>
    ELSE IF files.pdf # <<>> THEN <<files.pdf[1]>>
    ELSE <<>>

NoPath == [ts |-> -1, name |-> <<>>]

NoBody == [keys |-> {}, ok |-> "absent", error |-> <<>>, raw |-> <<>>, data |-> "absent"]

\* The local state and the history of one request.
InitialState ==
    [files       |-> NoFiles,   \* req.files
     file        |-> <<>>,      \* the handler's file
     tmp         |-> NoPath,    \* buildPartsFromUpload's tmp
     pending     |-> <<>>,      \* the part the try block returned, kept over finally
     bp          |-> "none",    \* buildPartsFromUpload: none, running, returned, threw
     parts       |-> <<>>,      \* fileParts
     docxValue   |-> <<>>,      \* <<value>> mammoth resolved to
     returned    |-> <<>>,      \* <<text>> of the result generateContent resolved to
     backend     |-> "none",    \* generateContent: none, called, returned, threw
     errKind     |-> "none",
     calls       |-> <<>>,      \* calls made to the ai client, in order
     writes      |-> 0,         \* fs.writeFile calls
     unlinks     |-> 0,         \* fs.unlink calls
     schemaLoads |-> 0,         \* loadSchema calls
     responses   |-> 0,         \* responses sent
     status      |-> 0,
     body        |-> NoBody]

VARIABLES
    pc,      \* where each request is
    input,   \* what each request carries
    st,      \* each request's local state and history
    now,     \* Date.now()
    fs,      \* the files under /tmp, each with the request that last wrote it
    API_KEY  \* whether GOOGLE_API_KEY or GEMINI_API_KEY is set

vars == <<pc, input, st, now, fs, API_KEY>>

\* res.status(code).json(body), the handler's work ending with it
Send(s, code, body, kind) ==
    [s EXCEPT !.responses = @ + 1, !.status = code, !.body = body, !.errKind = kind]

ErrorBody(message) == [NoBody EXCEPT !.keys = {"error"}, !.error = message]

\* The catch block of the /extract handler: status 500, {ok: false, error: String(e)}.
Caught(s, message, kind) ==
    Send(s, 500,
         [NoBody EXCEPT !.keys = {"ok", "error"}, !.ok = "false",
                        !.error = StringOfError(message)],
         kind)

InitSingle ==
    /\ pc = [r \in Reqs |-> IF r = "r1" THEN "idle" ELSE "off"]
    /\ \E in \in ExtractInputs \cup OtherRouteInputs :
           input = [r \in Reqs |-> IF r = "r1" THEN in ELSE NoInput]

InitConcurrent ==
    /\ pc = [r \in Reqs |-> "idle"]
    /\ input \in [Reqs -> ConcurrentInputs]

Init ==
    /\ InitSingle \/ InitConcurrent
    /\ st = [r \in Reqs |-> InitialState]
    /\ now = 0
    /\ fs = {}
    /\ API_KEY \in BOOLEAN

-----------------------------------------------------------------------------
\* Routing (app.get, app.post)

\* POST /extract: the request enters uploadEitherWrapped.
RouteExtract(r) ==
    /\ pc[r] = "idle"
    /\ input[r].route = "POST /extract"
    /\ pc' = [pc EXCEPT ![r] = "multer"]
    /\ UNCHANGED <<input, st, now, fs, API_KEY>>

\* GET /ilpCheck: res.json({ok: true, model, maxInlineBytes}).
RouteIlpCheck(r) ==
    /\ pc[r] = "idle"
    /\ input[r].route = "GET /ilpCheck"
    /\ st' = [st EXCEPT ![r] =
                 Send(@, 200,
                      [NoBody EXCEPT !.keys = {"ok", "model", "maxInlineBytes"},
                                     !.ok = "true"],
                      "none")]
    /\ pc' = [pc EXCEPT ![r] = "done"]
    /\ UNCHANGED <<input, now, fs, API_KEY>>

\* Any other method and path: the application registers no handler for it,
\* so Express answers 404 and no code of server.js runs.
RouteUnmatched(r) ==
    /\ pc[r] = "idle"
    /\ input[r].route \notin {"POST /extract", "GET /ilpCheck"}
    /\ st' = [st EXCEPT ![r] = Send(@, 404, NoBody, "noRoute")]
    /\ pc' = [pc EXCEPT ![r] = "done"]
    /\ UNCHANGED <<input, now, fs, API_KEY>>

-----------------------------------------------------------------------------
\* uploadEitherWrapped

\* The callback with err set, written without its return: the response is
\* sent and next() runs as well.
MulterErrorThenNext(r) ==
    /\ pc[r] = "multer"
    /\ input[r].upload = "unexpected"
    /\ st' = [st EXCEPT ![r] = Send(@, 400, ErrorBody(MulterErrorString), "multer")]
    /\ pc' = [pc EXCEPT ![r] = "handler"]
    /\ UNCHANGED <<input, now, fs, API_KEY>>

\* if (err) return res.status(400).json({error: String(err)})
MulterError(r) ==
    /\ pc[r] = "multer"
    /\ input[r].upload = "unexpected"
    /\ st' = [st EXCEPT ![r] = Send(@, 400, ErrorBody(MulterErrorString), "multer")]
    /\ pc' = [pc EXCEPT ![r] = "done"]
    /\ UNCHANGED <<input, now, fs, API_KEY>>

\* next(): req.files is set and the handler is entered.
MulterNext(r) ==
    /\ pc[r] = "multer"
    /\ input[r].upload # "unexpected"
    /\ st' = [st EXCEPT ![r] = [@ EXCEPT !.files = FilesOf(input[r])]]
    /\ pc' = [pc EXCEPT ![r] = "handler"]
    /\ UNCHANGED <<input, now, fs, API_KEY>>

-----------------------------------------------------------------------------
\* The /extract handler up to its first await

\* if (!API_KEY) return res.status(400).json(...)
HandlerNoKey(r) ==
    /\ pc[r] = "handler"
    /\ ~API_KEY
    /\ st' = [st EXCEPT ![r] = Send(@, 400, ErrorBody(MissingKeyMessage), "credential")]
    /\ pc' = [pc EXCEPT ![r] = "done"]
    /\ UNCHANGED <<input, now, fs, API_KEY>>

\* The missing-file test written without its return: the 400 is sent, then
\* buildPartsFromUpload(null) throws a TypeError reading file.mimetype and the
\* catch block sends a 500.
HandlerNoFileFallsThrough(r) ==
    /\ pc[r] = "handler"
    /\ API_KEY
    /\ getUploadedFile(st[r].files) = <<>>
    /\ st' = [st EXCEPT ![r] =
                 Caught(Send(@, 400, ErrorBody(MissingFileMessage), "missingFile"),
                        << "Cannot read properties of null" >>, "missingFile")]
    /\ pc' = [pc EXCEPT ![r] = "done"]
    /\ UNCHANGED <<input, now, fs, API_KEY>>

\* if (!file) return res.status(400).json(...)
HandlerNoFile(r) ==
    /\ pc[r] = "handler"
    /\ API_KEY
    /\ getUploadedFile(st[r].files) = <<>>
    /\ st' = [st EXCEPT ![r] = Send(@, 400, ErrorBody(MissingFileMessage), "missingFile")]
    /\ pc' = [pc EXCEPT ![r] = "done"]
    /\ UNCHANGED <<input, now, fs, API_KEY>>

\* The handler has a file and calls buildPartsFromUpload(file).
CallsBuildParts(r) ==
    /\ pc[r] = "handler"
    /\ API_KEY
    /\ getUploadedFile(st[r].files) # <<>>

TheFile(r) == getUploadedFile(st[r].files)[1]

\* buildPartsFromUpload returned ps; the handler goes on to await loadSchema().
PartsBuilt(s, ps) ==
    [s EXCEPT !.parts = ps, !.bp = "returned", !.schemaLoads = @ + 1]

\* Branch 1, small: one inlineData part with the bytes base64-encoded.
BuildInline(r) ==
    /\ CallsBuildParts(r)
    /\ TheFile(r).mimetype \in DIRECT_DOC_MIMES \cup IMAGE_MIMES
    /\ InlineAllowed(SizeOf(TheFile(r)))
    /\ st' = [st EXCEPT ![r] =
                 PartsBuilt([@ EXCEPT !.file = <<TheFile(r)>>],
                            << InlinePart(TheFile(r)) >>)]
    /\ pc' = [pc EXCEPT ![r] = "schema"]
    /\ UNCHANGED <<input, now, fs, API_KEY>>

\* Branch 2, small: one text part with the bytes decoded as UTF-8.
BuildText(r) ==
    /\ CallsBuildParts(r)
    /\ TheFile(r).mimetype \in TEXTY_MIMES
    /\ InlineAllowed(SizeOf(TheFile(r)))
    /\ st' = [st EXCEPT ![r] =
                 PartsBuilt([@ EXCEPT !.file = <<TheFile(r)>>],
                            << TextPart(<<"utf-8", TheFile(r).buffer>>) >>)]
    /\ pc' = [pc EXCEPT ![r] = "schema"]
    /\ UNCHANGED <<input, now, fs, API_KEY>>

\* Branches 1 and 2, large: tmp is named from Date.now() and the original
\* name, and fs.writeFile(tmp, file.buffer) is awaited.
BuildLarge(r) ==
    /\ CallsBuildParts(r)
    /\ TheFile(r).mimetype \in DIRECT_DOC_MIMES \cup IMAGE_MIMES \cup TEXTY_MIMES
    /\ ~InlineAllowed(SizeOf(TheFile(r)))
    /\ st' = [st EXCEPT ![r] =
                 [@ EXCEPT !.file = <<TheFile(r)>>,
                           !.bp = "running",
                           !.tmp = TmpPath(now, TheFile(r),
                                           IF TheFile(r).mimetype \in TEXTY_MIMES
                                           THEN <<"upload.txt">> ELSE <<"upload">>),
                           !.writes = @ + 1]]
    /\ pc' = [pc EXCEPT ![r] = "write"]
    /\ UNCHANGED <<input, now, fs, API_KEY>>

\* Branch 3: mammoth.extractRawText({buffer}) is awaited, whatever the size.
BuildDocx(r) ==
    /\ CallsBuildParts(r)
    /\ TheFile(r).mimetype = DOCX_MIME
    /\ st' = [st EXCEPT ![r] = [@ EXCEPT !.file = <<TheFile(r)>>, !.bp = "running"]]
    /\ pc' = [pc EXCEPT ![r] = "docx"]
    /\ UNCHANGED <<input, now, fs, API_KEY>>

\* No branch matches: the Error is thrown and the handler's catch answers.
BuildUnsupported(r) ==
    /\ CallsBuildParts(r)
    /\ TheFile(r).mimetype \notin RecognizedMimes
    /\ st' = [st EXCEPT ![r] =
                 Caught([@ EXCEPT !.file = <<TheFile(r)>>, !.bp = "threw"],
                        UnsupportedMessage(TheFile(r).mimetype), "unsupported")]
    /\ pc' = [pc EXCEPT ![r] = "done"]
    /\ UNCHANGED <<input, now, fs, API_KEY>>

-----------------------------------------------------------------------------
\* The large-file path of buildPartsFromUpload, one step per await

FilesAt(path) == {f \in fs : f.path = path}

\* The files under /tmp once r has written (or started to write) path.
Written(path, r) == (fs \ FilesAt(path)) \cup {[path |-> path, writer |-> r]}

\* await fs.writeFile(tmp, file.buffer) resolves: the file exists with this
\* request's bytes; the try block starts and ai.files.upload is awaited.
WriteResolves(r) ==
    /\ pc[r] = "write"
    /\ fs' = Written(st[r].tmp, r)
    /\ st' = [st EXCEPT ![r] = [@ EXCEPT !.calls = Append(@, "files.upload")]]
    /\ pc' = [pc EXCEPT ![r] = "upload"]
    /\ UNCHANGED <<input, now, API_KEY>>

\* await fs.writeFile rejects.  The call is outside the try block, so the
\* finally clause does not run: the rejection leaves buildPartsFromUpload and
\* the handler's catch answers.  The write fails either before the file is
\* opened (nothing on disk changes) or after (a truncated file stays).
WriteRejects(r) ==
    /\ pc[r] = "write"
    /\ \E opened \in BOOLEAN :
           fs' = IF opened THEN Written(st[r].tmp, r) ELSE fs
    /\ st' = [st EXCEPT ![r] =
                 Caught([@ EXCEPT !.bp = "threw"], << "writeFile failed" >>, "write")]
    /\ pc' = [pc EXCEPT ![r] = "done"]
    /\ UNCHANGED <<input, now, API_KEY>>

\* await ai.files.upload resolves (the file must be there to be read): the
\* try block returns [createPartFromUri(...)] and finally awaits fs.unlink.
\* The uri names whose bytes were at the path when it was read.
UploadResolves(r) ==
    /\ pc[r] = "upload"
    /\ \E f \in FilesAt(st[r].tmp) :
           st' = [st EXCEPT ![r] =
                     [@ EXCEPT !.pending =
                                   << createPartFromUri(<<"files/", f.writer>>,
                                                        st[r].file[1].mimetype) >>,
                               !.unlinks = @ + 1]]
    /\ pc' = [pc EXCEPT ![r] = "unlink"]
    /\ UNCHANGED <<input, now, fs, API_KEY>>

\* await ai.files.upload rejects (the backend, the network, or the file is
\* gone): finally awaits fs.unlink with the rejection pending.
UploadRejects(r) ==
    /\ pc[r] = "upload"
    /\ st' = [st EXCEPT ![r] = [@ EXCEPT !.unlinks = @ + 1]]
    /\ pc' = [pc EXCEPT ![r] = "unlink"]
    /\ UNCHANGED <<input, now, fs, API_KEY>>

\* await fs.unlink(tmp).catch(() => {}) is over: whatever is at the path is
\* removed (a missing file rejects, and the rejection is swallowed).  Then the
\* try block's return value or rejection takes effect.
UnlinkSettles(r) ==
    /\ pc[r] = "unlink"
    /\ fs' = fs \ FilesAt(st[r].tmp)
    /\ IF st[r].pending # <<>>
       THEN /\ st' = [st EXCEPT ![r] = PartsBuilt(@, st[r].pending)]
            /\ pc' = [pc EXCEPT ![r] = "schema"]
       ELSE /\ st' = [st EXCEPT ![r] =
                         Caught([@ EXCEPT !.bp = "threw"], << "upload failed" >>, "upload")]
            /\ pc' = [pc EXCEPT ![r] = "done"]
    /\ UNCHANGED <<input, now, API_KEY>>

-----------------------------------------------------------------------------
\* The DOCX path

\* await mammoth.extractRawText resolves with {value}: txt = (value || "").trim();
\* empty txt throws, otherwise one text part is returned.
DocxResolves(r) ==
    /\ pc[r] = "docx"
    /\ \E value \in DocxValues :
           st' = [st EXCEPT ![r] =
                     IF Trim(value) = <<>>
                     THEN Caught([@ EXCEPT !.docxValue = <<value>>, !.bp = "threw"],
                                 EmptyDocxMessage, "emptyDocx")
                     ELSE PartsBuilt([@ EXCEPT !.docxValue = <<value>>],
                                     << TextPart(Trim(value)) >>)]
    /\ pc' = [pc EXCEPT ![r] = IF st'[r].bp = "threw" THEN "done" ELSE "schema"]
    /\ UNCHANGED <<input, now, fs, API_KEY>>

\* await mammoth.extractRawText rejects (the bytes are no DOCX archive).
DocxRejects(r) ==
    /\ pc[r] = "docx"
    /\ st' = [st EXCEPT ![r] =
                 Caught([@ EXCEPT !.bp = "threw"], << "mammoth failed" >>, "docxExtract")]
    /\ pc' = [pc EXCEPT ![r] = "done"]
    /\ UNCHANGED <<input, now, fs, API_KEY>>

-----------------------------------------------------------------------------
\* The rest of the /extract handler

\* await loadSchema() resolves: ai.models.generateContent is called and awaited.
SchemaResolves(r) ==
    /\ pc[r] = "schema"
    /\ st' = [st EXCEPT ![r] =
                 [@ EXCEPT !.calls = Append(@, "models.generateContent"),
                           !.backend = "called"]]
    /\ pc' = [pc EXCEPT ![r] = "generate"]
    /\ UNCHANGED <<input, now, fs, API_KEY>>

\* await loadSchema() rejects (schema.json is missing or is not JSON).
SchemaRejects(r) ==
    /\ pc[r] = "schema"
    /\ st' = [st EXCEPT ![r] = Caught(@, << "loadSchema failed" >>, "schema")]
    /\ pc' = [pc EXCEPT ![r] = "done"]
    /\ UNCHANGED <<input, now, fs, API_KEY>>

\* The answer to a result whose text is `returned`: text = result?.text || "{}",
\* then JSON.parse(text) decides between the 502 and the 200.
Answer(s, returned) ==
    IF JsonValid(TextOrDefault(returned))
    THEN Send([s EXCEPT !.returned = returned, !.backend = "returned"], 200,
              [NoBody EXCEPT !.keys = {"ok", "data"}, !.ok = "true",
                             !.data = JsonParse(TextOrDefault(returned))],
              "none")
    ELSE Send([s EXCEPT !.returned = returned, !.backend = "returned"], 502,
              [NoBody EXCEPT !.keys = {"error", "raw"}, !.error = NotJsonMessage,
                             !.raw = << TextOrDefault(returned) >>],
              "notJson")

\* await ai.models.generateContent resolves.
GenerateResolves(r) ==
    /\ pc[r] = "generate"
    /\ \E returned \in {<<>>} \cup {<<t>> : t \in ModelTexts} :
           st' = [st EXCEPT ![r] = Answer(@, returned)]
    /\ pc' = [pc EXCEPT ![r] = "done"]
    /\ UNCHANGED <<input, now, fs, API_KEY>>

\* A handler that calls the backend again when the call fails.
GenerateRejectsAndRetries(r) ==
    /\ pc[r] = "generate"
    /\ st' = [st EXCEPT ![r] =
                 [@ EXCEPT !.calls = Append(@, "models.generateContent")]]
    /\ UNCHANGED <<pc, input, now, fs, API_KEY>>

\* await ai.models.generateContent rejects: the catch block answers 500.
GenerateRejects(r) ==
    /\ pc[r] = "generate"
    /\ st' = [st EXCEPT ![r] =
                 Caught([@ EXCEPT !.backend = "threw"], << "generateContent failed" >>,
                        "backend")]
    /\ pc' = [pc EXCEPT ![r] = "done"]
    /\ UNCHANGED <<input, now, fs, API_KEY>>

\* Time passes.
Tick ==
    /\ now < MaxNow
    /\ now' = now + 1
    /\ UNCHANGED <<pc, input, st, fs, API_KEY>>

\* The steps of one request after it has arrived.
Step(r) ==
    \/ MulterError(r) \/ MulterNext(r)
    \/ HandlerNoKey(r) \/ HandlerNoFile(r)
    \/ BuildInline(r) \/ BuildText(r) \/ BuildLarge(r) \/ BuildDocx(r)
    \/ BuildUnsupported(r)
    \/ WriteResolves(r) \/ WriteRejects(r)
    \/ UploadResolves(r) \/ UploadRejects(r) \/ UnlinkSettles(r)
    \/ DocxResolves(r) \/ DocxRejects(r)
    \/ SchemaResolves(r) \/ SchemaRejects(r)
    \/ GenerateResolves(r) \/ GenerateRejects(r)

Next ==
    \/ Tick
    \/ \E r \in Reqs :
           \/ RouteExtract(r) \/ RouteIlpCheck(r) \/ RouteUnmatched(r)
           \/ Step(r)

Spec == Init /\ [][Next]_vars

\* Every awaited call settles and every continuation is run.
FairSpec == Spec /\ \A r \in Reqs : WF_vars(Step(r))

-----------------------------------------------------------------------------
\* Vocabulary of the properties

IsExtract(r) == input[r].route = "POST /extract"

Finished(r) == pc[r] = "done"

\* buildPartsFromUpload was called with a file / has returned or thrown.
BuildCalled(r) == st[r].bp # "none"

BuildOver(r) == st[r].bp \in {"returned", "threw"}

Mime(r) == st[r].file[1].mimetype

Size(r) == SizeOf(st[r].file[1])

ThresholdedMimes == DIRECT_DOC_MIMES \cup IMAGE_MIMES \cup TEXTY_MIMES

Count(seq, x) == Cardinality({i \in DOMAIN seq : seq[i] = x})

Uploaded(r) == Count(st[r].calls, "files.upload")

Generated(r) == Count(st[r].calls, "models.generateContent")

NoTempStorage(r) == st[r].writes = 0 /\ st[r].unlinks = 0 /\ Uploaded(r) = 0

Contains(message, text) == \E i \in DOMAIN message : message[i] = text

\* The request carries no file under "file" or "pdf".
CarriesNoFile(r) == input[r].upload \in {"none", "unexpected"}

InTempPath(r) == pc[r] \in {"write", "upload", "unlink"}

-----------------------------------------------------------------------------
\* C1: for a PDF, image or text-like upload above the inline threshold, once
\* buildPartsFromUpload has returned or thrown it has written exactly one
\* temporary file, no file it wrote is left under /tmp, and if it returned
\* it returned exactly one RemoteReference part.  (DOCX has no size branch:
\* it is text-extracted at every size.)
C1_LargeUploadLeavesNoTempFile ==
    \A r \in Reqs :
        (BuildOver(r) /\ Mime(r) \in ThresholdedMimes /\ Size(r) > MAX_INLINE_BYTES)
        => /\ st[r].writes = 1
           /\ \A f \in fs : f.writer # r
           /\ st[r].bp = "returned"
              => /\ Len(st[r].parts) = 1
                 /\ PartKind(st[r].parts[1]) = "RemoteReference"

\* C2 as stated: for every recognized MIME type and every size below (here: not above) the
\* inline threshold, buildPartsFromUpload returns exactly one part, InlineData
\* for PDF and images and TextSegment for text-like types and DOCX, and makes
\* no temporary-file write, no delete and no remote upload.
C2_SmallUploadAlwaysOnePart ==
    \A r \in Reqs :
        (BuildOver(r) /\ Mime(r) \in RecognizedMimes /\ Size(r) <= MAX_INLINE_BYTES)
        => /\ st[r].bp = "returned"
           /\ Len(st[r].parts) = 1
           /\ PartKind(st[r].parts[1]) =
                  (IF Mime(r) \in DIRECT_DOC_MIMES \cup IMAGE_MIMES
                   THEN "InlineData" ELSE "TextSegment")
           /\ NoTempStorage(r)

\* C2 amended: for every recognized MIME type and every size not above the
\* inline threshold, no temporary-file write, delete or remote upload is made;
\* a PDF or image yields exactly one InlineData part and a text-like type
\* exactly one TextSegment; DOCX yields exactly one TextSegment, the trimmed
\* text, when the extraction resolves to text that is not blank, and
\* otherwise the call throws and yields no part.
C2_SmallUploadOnePartUnlessDocxBlank ==
    \A r \in Reqs :
        (BuildCalled(r) /\ Mime(r) \in RecognizedMimes /\ Size(r) <= MAX_INLINE_BYTES)
        => /\ NoTempStorage(r)
           /\ (BuildOver(r) /\ Mime(r) \in DIRECT_DOC_MIMES \cup IMAGE_MIMES)
              => /\ st[r].bp = "returned"
                 /\ Len(st[r].parts) = 1
                 /\ PartKind(st[r].parts[1]) = "InlineData"
           /\ (BuildOver(r) /\ Mime(r) \in TEXTY_MIMES)
              => /\ st[r].bp = "returned"
                 /\ Len(st[r].parts) = 1
                 /\ PartKind(st[r].parts[1]) = "TextSegment"
           /\ (BuildOver(r) /\ Mime(r) = DOCX_MIME)
              => IF st[r].docxValue # <<>> /\ Trim(st[r].docxValue[1]) # <<>>
                 THEN /\ st[r].bp = "returned"
                      /\ st[r].parts = << TextPart(Trim(st[r].docxValue[1])) >>
                      /\ PartKind(st[r].parts[1]) = "TextSegment"
                 ELSE st[r].bp = "threw" /\ st[r].parts = <<>>

\* An upload of exactly the threshold size has been turned into its one
\* part without temporary storage.
C2_Witness ==
    \E r \in Reqs :
        /\ st[r].bp = "returned"
        /\ Mime(r) \in RecognizedMimes
        /\ Size(r) = MAX_INLINE_BYTES
        /\ Len(st[r].parts) = 1
        /\ PartKind(st[r].parts[1]) \in {"InlineData", "TextSegment"}
        /\ NoTempStorage(r)

\* C3: an /extract request that fails on a classifier or input error
\* (unsupported type, empty DOCX text, missing file, missing credential) is
\* answered with a 4xx status and the body {error: message}.
C3_InputErrorsAre4xx ==
    \A r \in Reqs :
        (Finished(r)
         /\ st[r].errKind \in {"unsupported", "emptyDocx", "missingFile", "credential"})
        => /\ st[r].status \in 400..499
           /\ st[r].body.keys = {"error"}

\* C4: for a declared MIME type in none of the recognized categories,
\* buildPartsFromUpload throws, yields no part, touches no temporary storage,
\* and the error message holds the offending type and every supported type.
C4_UnsupportedMessageNamesTypes ==
    \A r \in Reqs :
        (BuildOver(r) /\ Mime(r) \notin RecognizedMimes)
        => /\ st[r].bp = "threw"
           /\ st[r].parts = <<>>
           /\ NoTempStorage(r)
           /\ Contains(st[r].body.error, Mime(r))
           /\ \A i \in DOMAIN supported : Contains(st[r].body.error, supported[i])

\* C5: whatever text the backend returns, a text that is not JSON is answered
\* 502 with raw equal to that text, and a text that is JSON is answered
\* {ok: true, data} with data the parsed value of that text.
C5_ReturnedTextIsTheTextAnswered ==
    \A r \in Reqs :
        (st[r].backend = "returned" /\ st[r].returned # <<>>)
        => IF JsonValid(st[r].returned[1])
           THEN /\ st[r].status = 200
                /\ st[r].body.ok = "true"
                /\ st[r].body.data = JsonParse(st[r].returned[1])
           ELSE /\ st[r].status = 502
                /\ st[r].body.raw = st[r].returned

\* What an /extract request without a file never does.
NoWorkDone(r) ==
    /\ ~BuildCalled(r)
    /\ NoTempStorage(r)
    /\ st[r].schemaLoads = 0
    /\ st[r].calls = <<>>

\* C6 as stated: an /extract request with no file under either accepted field
\* is answered with the missing-file error, status 400, and never builds
\* parts, writes a temporary file, uploads, loads the schema or calls the model.
C6_NoFileIsMissingFileError ==
    \A r \in Reqs :
        (IsExtract(r) /\ CarriesNoFile(r))
        => /\ NoWorkDone(r)
           /\ Finished(r)
              => st[r].status = 400 /\ st[r].body = ErrorBody(MissingFileMessage)

\* C6 amended: such a request is answered with status 400 and an {error}
\* body, and never builds parts, writes a temporary file, uploads, loads the
\* schema or calls the model; the error is the missing-file error when a
\* credential is configured and the upload was parsed, the missing-credential
\* error when no credential is configured, and the upload middleware's error
\* when the body has a file under an undeclared field.
C6_NoFileIs400WithoutAnyWork ==
    \A r \in Reqs :
        (IsExtract(r) /\ CarriesNoFile(r))
        => /\ NoWorkDone(r)
           /\ st[r].responses <= 1
           /\ Finished(r)
              => /\ st[r].status = 400
                 /\ st[r].body =
                        ErrorBody(IF input[r].upload = "unexpected" THEN MulterErrorString
                                  ELSE IF API_KEY THEN MissingFileMessage
                                  ELSE MissingKeyMessage)

\* A request without a file has been answered with the missing-file error.
C6_Witness ==
    \E r \in Reqs :
        /\ IsExtract(r) /\ input[r].upload = "none" /\ Finished(r)
        /\ st[r].errKind = "missingFile"
        /\ st[r].status = 400

\* C7 as stated: an /extract request calls generateContent at most once,
\* exactly once when credential, file and part building succeed and never
\* otherwise; a failure of the call is answered 5xx and not retried.
C7_OneCallWhenPartsAreBuilt ==
    \A r \in Reqs :
        IsExtract(r)
        => /\ Generated(r) <= 1
           /\ Finished(r)
              => (Generated(r) = 1
                  <=> (API_KEY /\ st[r].file # <<>> /\ st[r].bp = "returned"))
           /\ st[r].backend = "threw"
              => st[r].status \in 500..599 /\ Generated(r) = 1

\* C7 amended: ... exactly once when credential, file, part building and the
\* schema load all succeed, and never otherwise; a failure of the call is
\* answered 5xx and not retried.
C7_OneCallWhenSchemaIsLoaded ==
    \A r \in Reqs :
        IsExtract(r)
        => /\ Generated(r) <= 1
           /\ Finished(r)
              => (Generated(r) = 1
                  <=> (API_KEY /\ st[r].file # <<>> /\ st[r].bp = "returned"
                       /\ st[r].errKind # "schema"))
           /\ st[r].backend = "threw"
              => st[r].status \in 500..599 /\ Generated(r) = 1

\* A request whose one backend call failed has been answered 500.
C7_Witness ==
    \E r \in Reqs :
        /\ Finished(r) /\ st[r].backend = "threw"
        /\ Generated(r) = 1 /\ st[r].status = 500

\* C8: two large-file requests in flight use distinct temporary paths, and a
\* request waiting for its upload still has the file it wrote.
C8_TempPathsAreDistinct ==
    \A r1, r2 \in Reqs :
        (r1 # r2 /\ InTempPath(r1) /\ InTempPath(r2))
        => /\ st[r1].tmp # st[r2].tmp
           /\ pc[r1] = "upload"
              => [path |-> st[r1].tmp, writer |-> r1] \in fs

\* C9: POST /cache/rebuild is handled: it is answered successfully and has
\* re-run cache creation (one caches.create call) by the time it is answered.
C9_RebuildRecreatesTheCache ==
    \A r \in Reqs :
        (input[r].route = "POST /cache/rebuild" /\ Finished(r))
        => /\ st[r].status \in 200..299
           /\ Count(st[r].calls, "caches.create") = 1

\* C10: every /extract request gets exactly one response, with a status among
\* 200, 400, 502 and 500: never two at any time, and one once it has entered
\* the upload wrapper and its awaited calls have settled.
C10_ExactlyOneResponse ==
    /\ [](\A r \in Reqs :
              IsExtract(r)
              => /\ st[r].responses <= 1
                 /\ Finished(r) => st[r].responses = 1
                 /\ st[r].responses = 1 => st[r].status \in {200, 400, 502, 500})
    /\ \A r \in Reqs :
           (IsExtract(r) /\ pc[r] = "multer")
           ~> (Finished(r) /\ st[r].responses = 1)

\* The upload wrapper has answered a request itself, once.
C10_Witness ==
    \E r \in Reqs :
        /\ IsExtract(r) /\ Finished(r)
        /\ st[r].errKind = "multer"
        /\ st[r].responses = 1 /\ st[r].status = 400

====
